---------------------------- MODULE Spec2Model ----------------------------
(***************************************************************************)
(* The parametric Value-at-Risk notebook (course-materials/ValueAtRisk):   *)
(* one kernel namespace, one action per code cell, run top to bottom.      *)
(*                                                                         *)
(* Numbers.  A float is modelled as an exact rational or one of the IEEE   *)
(* specials: [k |-> "fin", n, d] is n/d in lowest terms with d > 0,        *)
(* [k |-> "inf", n |-> +1/-1] is +inf/-inf and [k |-> "nan"] is NaN.       *)
(* Rounding error is not modelled; the IEEE rules for division by zero,    *)
(* inf and NaN propagation are.  Square roots and the standard normal      *)
(* quantile z(q) are irrational and are kept symbolic.                     *)
(***************************************************************************)
EXTENDS Integers, Sequences, FiniteSets, TLC

\* ----------------------------------------------------------------- bounds
MaxLen == 3         \* observations (rows) in a downloaded price table
MaxPrice == 2       \* prices are integers in -1..MaxPrice
MaxHorizon == 2     \* requested horizons are -1..MaxHorizon and 30

\* ------------------------------------------------------ program constants
InitialInvestment == 1000   \* initial_investment = 1_000
RangeStop == 31             \* range(1, 31)

\* the portfolio: the first two of tickers = ["AAPL", "META", "C", "DIS"]
tickers == <<"AAPL", "META">>

\* ------------------------------------------------------------- arithmetic
Abs(x) == IF x < 0 THEN -x ELSE x

Sgn(x) == IF x < 0 THEN -1 ELSE IF x > 0 THEN 1 ELSE 0

RECURSIVE GCD(_, _)
GCD(a, b) == IF b = 0 THEN a ELSE GCD(b, a % b)

NaN == [k |-> "nan", n |-> 0, d |-> 1]

Inf(s) == [k |-> "inf", n |-> s, d |-> 1]

\* n/d in lowest terms, d > 0
Fin(n, d) ==
    LET g == GCD(Abs(n), Abs(d))
        s == IF d < 0 THEN -1 ELSE 1
    IN  [k |-> "fin", n |-> (s * n) \div g, d |-> Abs(d) \div g]

Zero == Fin(0, 1)

One == Fin(1, 1)

IsFinite(a) == a.k = "fin"

IsNaN(a) == a.k = "nan"

Neg(a) == IF a.k = "nan" THEN NaN ELSE [a EXCEPT !.n = -a.n]

\* IEEE addition
Add(a, b) ==
    IF a.k = "nan" \/ b.k = "nan" THEN NaN
    ELSE IF a.k = "inf" /\ b.k = "inf" THEN (IF a.n = b.n THEN a ELSE NaN)
    ELSE IF a.k = "inf" THEN a
    ELSE IF b.k = "inf" THEN b
    ELSE Fin(a.n * b.d + b.n * a.d, a.d * b.d)

Sub(a, b) == Add(a, Neg(b))

\* IEEE multiplication (inf * 0 is NaN)
Mul(a, b) ==
    IF a.k = "nan" \/ b.k = "nan" THEN NaN
    ELSE IF a.k = "inf" \/ b.k = "inf"
         THEN (IF a.n = 0 \/ b.n = 0 THEN NaN ELSE Inf(Sgn(a.n) * Sgn(b.n)))
    ELSE Fin(a.n * b.n, a.d * b.d)

\* IEEE division (x/0 is +-inf, 0/0 and inf/inf are NaN; the zero is +0.0)
Div(a, b) ==
    IF a.k = "nan" \/ b.k = "nan" THEN NaN
    ELSE IF a.k = "inf"
         THEN (IF b.k = "inf" THEN NaN
               ELSE Inf(a.n * (IF b.n < 0 THEN -1 ELSE 1)))
    ELSE IF b.k = "inf" THEN Zero
    ELSE IF b.n = 0 THEN (IF a.n = 0 THEN NaN ELSE Inf(Sgn(a.n)))
    ELSE Fin(a.n * b.d, a.d * b.n)

Less(a, b) == a.k = "fin" /\ b.k = "fin" /\ a.n * b.d < b.n * a.d

RECURSIVE SumSeq(_)
SumSeq(s) == IF Len(s) = 0 THEN Zero ELSE Add(Head(s), SumSeq(Tail(s)))

\* the subsequence of s at the indices the mask keeps
RECURSIVE Pick(_, _)
Pick(s, keep) ==
    IF Len(s) = 0 THEN <<>>
    ELSE (IF Head(keep) THEN <<Head(s)>> ELSE <<>>) \o Pick(Tail(s), Tail(keep))

\* ------------------------------------------------- pandas / numpy / scipy
\* pct_change followed by dropping the first row (a faulty variant of PctChange)
PctChangeDropFirst(p) ==
    [t \in 1..(Len(p) - 1) |->
        Sub(Div(Fin(p[t + 1], 1), Fin(p[t], 1)), One)]

\* the ratio taken the wrong way round, p.shift(1) / p - 1 (a faulty variant of PctChange)
PctChangeInverted(p) ==
    [t \in 1..Len(p) |->
        IF t = 1 THEN NaN
        ELSE Sub(Div(Fin(p[t - 1], 1), Fin(p[t], 1)), One)]

\* Series.pct_change(): p / p.shift(1) - 1; the first row has no predecessor
\* and stays in the result as NaN.
PctChange(p) ==
    [t \in 1..Len(p) |->
        IF t = 1 THEN NaN
        ELSE Sub(Div(Fin(p[t], 1), Fin(p[t - 1], 1)), One)]

\* DataFrame.pct_change(): column by column
PctChangeTable(tbl) == [a \in 1..Len(tbl) |-> PctChange(tbl[a])]

\* Series.mean(): skipna, so NaN entries are left out (inf entries are not);
\* the mean of no entries is NaN
SeriesMean(s) ==
    LET vals == Pick(s, [i \in 1..Len(s) |-> ~IsNaN(s[i])])
    IN  IF Len(vals) = 0 THEN NaN ELSE Div(SumSeq(vals), Fin(Len(vals), 1))

\* the covariance with the population denominator nobs (a faulty variant of
\* NanCov)
NanCovPopulation(x, y) ==
    LET keep == [i \in 1..Len(x) |-> IsFinite(x[i]) /\ IsFinite(y[i])]
        xs == Pick(x, keep)
        ys == Pick(y, keep)
        nobs == Len(xs)
        mx == Div(SumSeq(xs), Fin(nobs, 1))
        my == Div(SumSeq(ys), Fin(nobs, 1))
        covxy == SumSeq([i \in 1..nobs |-> Mul(Sub(xs[i], mx), Sub(ys[i], my))])
    IN  IF nobs < 1 THEN NaN
        ELSE IF nobs - 1 = 0 THEN NaN
        ELSE Div(covxy, Fin(nobs, 1))

\* one entry of DataFrame.cov() on a frame that holds a NaN (nancorr, cov=True,
\* minp=1): the rows where both columns are finite, denominator nobs - 1
NanCov(x, y) ==
    LET keep == [i \in 1..Len(x) |-> IsFinite(x[i]) /\ IsFinite(y[i])]
        xs == Pick(x, keep)
        ys == Pick(y, keep)
        nobs == Len(xs)
        mx == Div(SumSeq(xs), Fin(nobs, 1))
        my == Div(SumSeq(ys), Fin(nobs, 1))
        covxy == SumSeq([i \in 1..nobs |-> Mul(Sub(xs[i], mx), Sub(ys[i], my))])
    IN  IF nobs < 1 THEN NaN
        ELSE IF nobs - 1 = 0 THEN NaN
        ELSE Div(covxy, Fin(nobs - 1, 1))

\* DataFrame.cov()
CovTable(r) == [i \in 1..Len(r) |-> [j \in 1..Len(r) |-> NanCov(r[i], r[j])]]

\* DataFrame.mean()
MeanTable(r) == [a \in 1..Len(r) |-> SeriesMean(r[a])]

\* a shape test that only notices a vector that is too short (a faulty variant of
\* ShapeMismatch)
ShapeTooShort(u, w) == Len(u) > Len(w)

\* the shape test of Series.dot / np.dot
ShapeMismatch(u, w) == Len(u) # Len(w)

\* a dot product that leaves out the last position (a faulty variant of Dot)
DotWithoutLast(u, w) == SumSeq([i \in 1..(Len(u) - 1) |-> Mul(u[i], w[i])])

\* dot product of two vectors of equal length
Dot(u, w) == SumSeq([i \in 1..Len(u) |-> Mul(u[i], w[i])])

\* weights.T.dot(cov_matrix).dot(weights)
QuadForm(w, m) == Dot([j \in 1..Len(m) |-> Dot(w, [i \in 1..Len(m) |-> m[i][j]])], w)

\* A root value c * sqrt(r): [k |-> "fin", c, r] with c, r finite and r >= 0;
\* zero is c = r = 0.
RootNaN == [k |-> "nan", c |-> Zero, r |-> Zero]

RootInf == [k |-> "inf", c |-> Zero, r |-> Zero]

Root(c, r) ==
    IF c.n = 0 \/ r.n = 0 THEN [k |-> "fin", c |-> Zero, r |-> Zero]
    ELSE [k |-> "fin", c |-> c, r |-> r]

RootIsZero(s) == s.k = "fin" /\ s.c.n = 0

RootIsPositive(s) == s.k = "inf" \/ (s.k = "fin" /\ s.c.n > 0)

\* np.sqrt(x): NaN for NaN and for x < 0
SqrtOf(x) ==
    IF x.k = "nan" THEN RootNaN
    ELSE IF x.k = "inf" THEN (IF x.n > 0 THEN RootInf ELSE RootNaN)
    ELSE IF x.n < 0 THEN RootNaN
    ELSE Root(One, x)

\* a * s for a finite number a and a root value s
ScaleRoot(a, s) ==
    IF s.k = "nan" THEN RootNaN
    ELSE IF s.k = "inf" THEN (IF a.n = 0 THEN RootNaN
                              ELSE IF a.n > 0 THEN RootInf ELSE RootNaN)
    ELSE Root(Mul(a, s.c), s.r)

\* An estimate a + zc * z(q) * s, z the standard normal quantile function:
\* [k |-> "fin", a, zc, q, s] with a finite, zc in {-1, 0, 1}, 0 < q < 1 and
\* s a positive finite root value (zc = 0 for an exact rational a);
\* [k |-> "inf", n |-> +1/-1] and [k |-> "nan"] as for numbers.
EstNaN == [k |-> "nan", n |-> 0, a |-> Zero, zc |-> 0, q |-> Zero, s |-> Root(Zero, Zero)]

EstOf(x) ==
    IF x.k = "nan" THEN EstNaN
    ELSE IF x.k = "inf" THEN [EstNaN EXCEPT !.k = "inf", !.n = x.n]
    ELSE [EstNaN EXCEPT !.k = "fin", !.a = x]

\* sign of z(q) for 0 < q < 1
ZSign(q) == IF Less(q, Fin(1, 2)) THEN -1 ELSE IF Less(Fin(1, 2), q) THEN 1 ELSE 0

\* scipy.stats.norm.ppf(q, loc, scale) (rv_continuous.ppf): NaN unless
\* scale > 0 and loc is not NaN; the support bounds -inf/+inf (times scale,
\* plus loc) at q = 0 and q = 1; z(q) * scale + loc for 0 < q < 1; NaN for
\* any other q
NormPpf(q, loc, scale) ==
    LET cond0 == RootIsPositive(scale) /\ ~IsNaN(loc)
        cond1 == Less(Zero, q) /\ Less(q, One)
    IN  IF ~cond0 THEN EstNaN
        ELSE IF q = Zero THEN EstOf(Add(Inf(-1), loc))
        ELSE IF q = One THEN EstOf(Add(Inf(1), loc))
        ELSE IF ~cond1 THEN EstNaN
        ELSE IF ZSign(q) = 0 THEN (IF scale.k = "inf" THEN EstNaN ELSE EstOf(loc))
        ELSE IF scale.k = "inf" THEN EstOf(Add(Inf(ZSign(q)), loc))
        ELSE IF ~IsFinite(loc) THEN EstOf(loc)
        ELSE [EstNaN EXCEPT !.k = "fin", !.a = loc, !.zc = 1, !.q = q, !.s = scale]

\* a - e for a finite number a and an estimate e
SubEst(a, e) ==
    IF e.k = "nan" THEN EstNaN
    ELSE IF e.k = "inf" THEN [e EXCEPT !.n = -e.n]
    ELSE [e EXCEPT !.a = Sub(a, e.a), !.zc = -e.zc]

\* v * sqrt(rad) for an estimate v and an integer rad >= 0, as [v, rad];
\* NaN * x = NaN, inf * 0 = NaN, inf * x = inf for x > 0
TimesSqrt(v, rad) ==
    IF v.k = "nan" THEN [v |-> EstNaN, rad |-> 1]
    ELSE IF v.k = "inf" THEN [v |-> IF rad = 0 THEN EstNaN ELSE v, rad |-> 1]
    ELSE IF rad = 0 THEN [v |-> EstOf(Zero), rad |-> 1]
    ELSE [v |-> v, rad |-> rad]

\* np.sqrt(range(30, 0, -1)) (a faulty variant of SqrtRange)
SqrtRangeDescending == [i \in 1..(RangeStop - 1) |-> RangeStop - i]

\* np.sqrt(range(0, 30)) (a faulty variant of SqrtRange)
SqrtRangeFromZero == [i \in 1..(RangeStop - 1) |-> i - 1]

\* np.sqrt(range(1, 31)): the radicands, in order
SqrtRange == [i \in 1..(RangeStop - 1) |-> i]

\* ----------------------------------------------------------------- inputs
\* weight vectors of length m: equal weights, all on the first asset, all
\* zero, and (m >= 2) a long/short pair 3/2, -1/2
WeightVecsOf(m) ==
    {[i \in 1..m |-> Fin(1, m)],
     [i \in 1..m |-> IF i = 1 THEN One ELSE Zero],
     [i \in 1..m |-> Zero],
     [i \in 1..m |-> IF m = 1 THEN One
                     ELSE IF i = 1 THEN Fin(3, 2)
                     ELSE IF i = 2 THEN Fin(-1, 2) ELSE Zero]}

WeightVecs == UNION {WeightVecsOf(m) : m \in 1..Len(tickers)}

\* confidence levels: the notebook's 0.05, the centre 0.5, both ends of the
\* unit interval and one value beyond it
ConfVals == {Zero, Fin(1, 20), Fin(1, 2), One, Fin(21, 20)}

\* two-asset tables of five rows over the price levels 1 and 2 in which
\* each asset has one price of 0, on different rows: the returns of the two
\* assets are then finite on different rows
GapTables ==
    {<< <<a, b, c, 0, 1>>, <<d, e, 0, f, g>> >> :
        a \in 1..2, b \in 1..2, c \in 1..2, d \in 1..2, e \in 1..2,
        f \in 1..2, g \in 1..2}

\* price tables, one price sequence per asset, all of one length: any
\* single-asset table over -1..MaxPrice, any table over the two price
\* levels 1 and 2 for a leading part of the tickers, and the tables with
\* gaps
PriceTables ==
    {<<p>> : p \in UNION {[1..len -> -1..MaxPrice] : len \in 0..MaxLen}}
    \cup UNION {[1..na -> [1..len -> 1..2]] :
                    na \in 1..Len(tickers), len \in 0..MaxLen}
    \cup GapTables

\* horizons a caller may ask for
HorizonVals == (-1..MaxHorizon) \cup {RangeStop - 1}

\* ------------------------------------------------------------------ state
VARIABLES
    pc,                 \* the next cell to run, "done" or "error"
    defined,            \* the names bound in the kernel namespace
    error,              \* the exception that ended the run, or "none"
    weights, initial_investment, confidence,
    data,
    returns, cov_matrix, mean_returns,
    port_mean, port_stdev,
    mean_investment, investment_stdev,
    percent_point, value_at_risk,
    horizonDays,        \* the horizon the caller asked the scaling step for
    value_at_risks,
    current,            \* the run whose cell the kernel executes next
    other_pc,           \* the next cell of the other run, "idle" with one run
    inputs,             \* per run, the inputs its caller supplies
    mainPc,             \* order demo: position of the main thread in MainOrder
    connected,          \* order demo: the socket to the gateway is open
    apiThread,          \* order demo: "unstarted", "running" or "stopped"
    msg_queue,          \* order demo: ids received from the gateway, not yet
                        \* handed to nextValidId
    nextorderId,        \* order demo: the attribute app.nextorderId
    delivered,          \* order demo: the ids nextValidId was called with
    ops,                \* order demo: the gateway calls of the main thread
    printed             \* order demo: the lines printed so far

kernelVars == <<pc, defined, error, weights, initial_investment, confidence,
                data, returns, cov_matrix, mean_returns, port_mean, port_stdev,
                mean_investment, investment_stdev, percent_point,
                value_at_risk, horizonDays, value_at_risks>>

sessionVars == <<current, other_pc, inputs>>

demoVars == <<mainPc, connected, apiThread, msg_queue, nextorderId, delivered,
              ops, printed>>

vars == <<kernelVars, sessionVars, demoVars>>

\* an attribute that was never assigned, the object None, and an int object
NoAttribute == [t |-> "unset", v |-> 0]

None == [t |-> "NoneType", v |-> 0]

IntObj(i) == [t |-> "int", v |-> i]

\* the order demo before its first statement
DemoInit ==
    /\ mainPc = 1
    /\ connected = FALSE
    /\ apiThread = "unstarted"
    /\ msg_queue = <<>>
    /\ nextorderId = NoAttribute
    /\ delivered = <<>>
    /\ ops = <<>>
    /\ printed = {}

\* the value of a name that is not bound yet
Unbound == [k |-> "unbound"]

Init ==
    /\ pc = "define"
    /\ defined = {}
    /\ error = "none"
    /\ weights = Unbound
    /\ initial_investment = Unbound
    /\ confidence = Unbound
    /\ data = Unbound
    /\ returns = Unbound
    /\ cov_matrix = Unbound
    /\ mean_returns = Unbound
    /\ port_mean = Unbound
    /\ port_stdev = Unbound
    /\ mean_investment = Unbound
    /\ investment_stdev = Unbound
    /\ percent_point = Unbound
    /\ value_at_risk = Unbound
    /\ horizonDays = Unbound
    /\ value_at_risks = Unbound
    /\ current = 1
    /\ other_pc = "idle"
    /\ inputs = <<>>
    /\ DemoInit

\* ------------------------------------------------------------------ cells
\* weights = ...; initial_investment = 1_000; confidence = 0.05
DefineVariables ==
    /\ pc = "define"
    /\ weights' \in WeightVecs
    /\ initial_investment' = Fin(InitialInvestment, 1)
    /\ confidence' \in ConfVals
    /\ defined' = defined \cup {"weights", "initial_investment", "confidence"}
    /\ pc' = "download"
    /\ UNCHANGED sessionVars
    /\ UNCHANGED demoVars
    /\ UNCHANGED <<error, data, returns, cov_matrix, mean_returns, port_mean,
                   port_stdev, mean_investment, investment_stdev, percent_point,
                   value_at_risk, horizonDays, value_at_risks>>

\* data = yf.download(tickers, ...).Close
Download ==
    /\ pc = "download"
    /\ data' \in PriceTables
    /\ defined' = defined \cup {"data"}
    /\ pc' = "returns"
    /\ UNCHANGED sessionVars
    /\ UNCHANGED demoVars
    /\ UNCHANGED <<error, weights, initial_investment, confidence, returns,
                   cov_matrix, mean_returns, port_mean, port_stdev,
                   mean_investment, investment_stdev, percent_point,
                   value_at_risk, horizonDays, value_at_risks>>

\* returns = data.pct_change()
BuildReturns ==
    /\ pc = "returns"
    /\ returns' = PctChangeTable(data)
    /\ defined' = defined \cup {"returns"}
    /\ pc' = "cov_matrix"
    /\ UNCHANGED sessionVars
    /\ UNCHANGED demoVars
    /\ UNCHANGED <<error, weights, initial_investment, confidence, data,
                   cov_matrix, mean_returns, port_mean, port_stdev,
                   mean_investment, investment_stdev, percent_point,
                   value_at_risk, horizonDays, value_at_risks>>

\* cov_matrix = returns.cov()
CovMatrix ==
    /\ pc = "cov_matrix"
    /\ cov_matrix' = CovTable(returns)
    /\ defined' = defined \cup {"cov_matrix"}
    /\ pc' = "mean_returns"
    /\ UNCHANGED sessionVars
    /\ UNCHANGED demoVars
    /\ UNCHANGED <<error, weights, initial_investment, confidence, data,
                   returns, mean_returns, port_mean, port_stdev,
                   mean_investment, investment_stdev, percent_point,
                   value_at_risk, horizonDays, value_at_risks>>

\* mean_returns = returns.mean()
MeanReturns ==
    /\ pc = "mean_returns"
    /\ mean_returns' = MeanTable(returns)
    /\ defined' = defined \cup {"mean_returns"}
    /\ pc' = "port_mean"
    /\ UNCHANGED sessionVars
    /\ UNCHANGED demoVars
    /\ UNCHANGED <<error, weights, initial_investment, confidence, data,
                   returns, cov_matrix, port_mean, port_stdev,
                   mean_investment, investment_stdev, percent_point,
                   value_at_risk, horizonDays, value_at_risks>>

\* port_mean = mean_returns.dot(weights); Series.dot raises on a shape
\* mismatch, and the raise ends the run with port_mean unbound
PortMean ==
    /\ pc = "port_mean"
    /\ IF ShapeMismatch(mean_returns, weights)
       THEN /\ error' = "shape mismatch"
            /\ pc' = "error"
            /\ UNCHANGED <<port_mean, defined>>
       ELSE /\ port_mean' = Dot(mean_returns, weights)
            /\ defined' = defined \cup {"port_mean"}
            /\ pc' = "port_stdev"
            /\ UNCHANGED error
    /\ UNCHANGED sessionVars
    /\ UNCHANGED demoVars
    /\ UNCHANGED <<weights, initial_investment, confidence, data, returns,
                   cov_matrix, mean_returns, port_stdev, mean_investment,
                   investment_stdev, percent_point, value_at_risk,
                   horizonDays, value_at_risks>>

\* port_stdev = np.sqrt(weights.T.dot(cov_matrix).dot(weights)); np.dot
\* raises on a shape mismatch
PortStdev ==
    /\ pc = "port_stdev"
    /\ IF ShapeMismatch(weights, cov_matrix)
       THEN /\ error' = "shape mismatch"
            /\ pc' = "error"
            /\ UNCHANGED <<port_stdev, defined>>
       ELSE /\ port_stdev' = SqrtOf(QuadForm(weights, cov_matrix))
            /\ defined' = defined \cup {"port_stdev"}
            /\ pc' = "mean_investment"
            /\ UNCHANGED error
    /\ UNCHANGED sessionVars
    /\ UNCHANGED demoVars
    /\ UNCHANGED <<weights, initial_investment, confidence, data, returns,
                   cov_matrix, mean_returns, port_mean, mean_investment,
                   investment_stdev, percent_point, value_at_risk,
                   horizonDays, value_at_risks>>

\* mean_investment = (1 + port_mean) * initial_investment
MeanInvestment ==
    /\ pc = "mean_investment"
    /\ mean_investment' = Mul(Add(One, port_mean), initial_investment)
    /\ defined' = defined \cup {"mean_investment"}
    /\ pc' = "investment_stdev"
    /\ UNCHANGED sessionVars
    /\ UNCHANGED demoVars
    /\ UNCHANGED <<error, weights, initial_investment, confidence, data,
                   returns, cov_matrix, mean_returns, port_mean, port_stdev,
                   investment_stdev, percent_point, value_at_risk,
                   horizonDays, value_at_risks>>

\* investment_stdev = initial_investment * port_stdev
InvestmentStdev ==
    /\ pc = "investment_stdev"
    /\ investment_stdev' = ScaleRoot(initial_investment, port_stdev)
    /\ defined' = defined \cup {"investment_stdev"}
    /\ pc' = "percent_point"
    /\ UNCHANGED sessionVars
    /\ UNCHANGED demoVars
    /\ UNCHANGED <<error, weights, initial_investment, confidence, data,
                   returns, cov_matrix, mean_returns, port_mean, port_stdev,
                   mean_investment, percent_point, value_at_risk,
                   horizonDays, value_at_risks>>

\* percent_point = norm.ppf(confidence, mean_investment, investment_stdev)
PercentPoint ==
    /\ pc = "percent_point"
    /\ percent_point' = NormPpf(confidence, mean_investment, investment_stdev)
    /\ defined' = defined \cup {"percent_point"}
    /\ pc' = "value_at_risk"
    /\ UNCHANGED sessionVars
    /\ UNCHANGED demoVars
    /\ UNCHANGED <<error, weights, initial_investment, confidence, data,
                   returns, cov_matrix, mean_returns, port_mean, port_stdev,
                   mean_investment, investment_stdev, value_at_risk,
                   horizonDays, value_at_risks>>

\* value_at_risk = initial_investment - percent_point
ValueAtRisk ==
    /\ pc = "value_at_risk"
    /\ value_at_risk' = SubEst(initial_investment, percent_point)
    /\ defined' = defined \cup {"value_at_risk"}
    /\ pc' = "value_at_risks"
    /\ UNCHANGED sessionVars
    /\ UNCHANGED demoVars
    /\ UNCHANGED <<error, weights, initial_investment, confidence, data,
                   returns, cov_matrix, mean_returns, port_mean, port_stdev,
                   mean_investment, investment_stdev, percent_point,
                   horizonDays, value_at_risks>>

\* value_at_risks = value_at_risk * np.sqrt(range(1, 31)); the horizon the
\* caller asks for is not read: the range is the literal
ScaleToHorizon ==
    /\ pc = "value_at_risks"
    /\ horizonDays' \in HorizonVals
    /\ value_at_risks' =
           [i \in 1..Len(SqrtRange) |-> TimesSqrt(value_at_risk, SqrtRange[i])]
    /\ defined' = defined \cup {"value_at_risks"}
    /\ pc' = "done"
    /\ UNCHANGED sessionVars
    /\ UNCHANGED demoVars
    /\ UNCHANGED <<error, weights, initial_investment, confidence, data,
                   returns, cov_matrix, mean_returns, port_mean, port_stdev,
                   mean_investment, investment_stdev, percent_point,
                   value_at_risk>>

Next ==
    \/ DefineVariables
    \/ Download
    \/ BuildReturns
    \/ CovMatrix
    \/ MeanReturns
    \/ PortMean
    \/ PortStdev
    \/ MeanInvestment
    \/ InvestmentStdev
    \/ PercentPoint
    \/ ValueAtRisk
    \/ ScaleToHorizon

Spec == Init /\ [][Next]_vars

\* --------------------------------------------- two runs in one kernel
\* Two callers run the notebook's cells in the same kernel, each with its
\* own inputs. The kernel executes one cell at a time, so the runs
\* interleave cell by cell; every name is a module-level global of the one
\* namespace.
Runs == {1, 2}

\* the inputs a caller may supply: weights, confidence, price table
SessionInputs ==
    {[weights |-> <<Fin(1, 2), Fin(1, 2)>>, confidence |-> Fin(1, 20),
      data |-> << <<1, 2, 1>>, <<2, 2, 1>> >>],
     [weights |-> <<One>>, confidence |-> Fin(1, 20),
      data |-> << <<1, 1, 2>> >>],
     [weights |-> <<Fin(3, 2), Fin(-1, 2)>>, confidence |-> Fin(1, 2),
      data |-> << <<1, 2, 2>>, <<2, 1, 2>> >>]}

InitSession ==
    /\ pc = "define"
    /\ defined = {}
    /\ error = "none"
    /\ weights = Unbound
    /\ initial_investment = Unbound
    /\ confidence = Unbound
    /\ data = Unbound
    /\ returns = Unbound
    /\ cov_matrix = Unbound
    /\ mean_returns = Unbound
    /\ port_mean = Unbound
    /\ port_stdev = Unbound
    /\ mean_investment = Unbound
    /\ investment_stdev = Unbound
    /\ percent_point = Unbound
    /\ value_at_risk = Unbound
    /\ horizonDays = Unbound
    /\ value_at_risks = Unbound
    /\ current = 1
    /\ other_pc = "define"
    /\ inputs \in [Runs -> SessionInputs]
    /\ DemoInit

\* the kernel takes the next cell from the other run
Switch ==
    /\ other_pc \notin {"idle", "done", "error"}
    /\ current' = 3 - current
    /\ pc' = other_pc
    /\ other_pc' = pc
    /\ UNCHANGED demoVars
    /\ UNCHANGED <<inputs, defined, error, weights, initial_investment,
                   confidence, data, returns, cov_matrix, mean_returns,
                   port_mean, port_stdev, mean_investment, investment_stdev,
                   percent_point, value_at_risk, horizonDays, value_at_risks>>

\* weights = ...; initial_investment = 1_000; confidence = ... with the
\* values of the current run
DefineVariablesOfRun ==
    /\ pc = "define"
    /\ weights' = inputs[current].weights
    /\ initial_investment' = Fin(InitialInvestment, 1)
    /\ confidence' = inputs[current].confidence
    /\ defined' = defined \cup {"weights", "initial_investment", "confidence"}
    /\ pc' = "download"
    /\ UNCHANGED sessionVars
    /\ UNCHANGED demoVars
    /\ UNCHANGED <<error, data, returns, cov_matrix, mean_returns, port_mean,
                   port_stdev, mean_investment, investment_stdev, percent_point,
                   value_at_risk, horizonDays, value_at_risks>>

\* data = yf.download(...).Close with the price table of the current run
DownloadOfRun ==
    /\ pc = "download"
    /\ data' = inputs[current].data
    /\ defined' = defined \cup {"data"}
    /\ pc' = "returns"
    /\ UNCHANGED sessionVars
    /\ UNCHANGED demoVars
    /\ UNCHANGED <<error, weights, initial_investment, confidence, returns,
                   cov_matrix, mean_returns, port_mean, port_stdev,
                   mean_investment, investment_stdev, percent_point,
                   value_at_risk, horizonDays, value_at_risks>>

NextSession ==
    \/ Switch
    \/ DefineVariablesOfRun
    \/ DownloadOfRun
    \/ BuildReturns
    \/ CovMatrix
    \/ MeanReturns
    \/ PortMean
    \/ PortStdev
    \/ MeanInvestment
    \/ InvestmentStdev
    \/ PercentPoint
    \/ ValueAtRisk
    \/ ScaleToHorizon

SpecSession == InitSession /\ [][NextSession]_vars

\* the cells from returns to value_at_risk run in order on the inputs inp,
\* with nothing else touching the namespace
AloneRaises(inp) ==
    ShapeMismatch(MeanTable(PctChangeTable(inp.data)), inp.weights)

AloneVaR(inp) ==
    LET rets == PctChangeTable(inp.data)
        cov == CovTable(rets)
        means == MeanTable(rets)
        investment == Fin(InitialInvestment, 1)
        pmean == Dot(means, inp.weights)
        pstdev == SqrtOf(QuadForm(inp.weights, cov))
        minv == Mul(Add(One, pmean), investment)
        sinv == ScaleRoot(investment, pstdev)
    IN  SubEst(investment, NormPpf(inp.confidence, minv, sinv))

AloneCurve(inp) ==
    [i \in 1..Len(SqrtRange) |-> TimesSqrt(AloneVaR(inp), SqrtRange[i])]

\* ------------------------------------------------ order-placement demo
\* The main thread runs the statements of the two demo cells in order; the
\* API thread runs app.run(), which hands each message received from the
\* gateway to its callback; the gateway sends next-valid-id messages while
\* the socket is open.
MaxSends == 3

MaxOrderId == 2

\* the order ids the gateway may send
OrderIds == 1..MaxOrderId

\* the main thread's statements with the wrong order of the two order calls
\* (a faulty variant of MainOrder)
MainOrderCancelFirst ==
    <<"construct", "connect", "reset", "start", "wait", "cancel", "place",
      "disconnect">>

\* the statements of the main thread, in program order
MainOrder ==
    <<"construct", "connect", "reset", "start", "wait", "place", "cancel",
      "disconnect">>

AtStep(name) == mainPc <= Len(MainOrder) /\ MainOrder[mainPc] = name

\* a test that lets every object pass (a faulty variant of IsInstanceInt)
IsInstanceAny(x) == x.t \in {"int", "NoneType", "unset"}

\* isinstance(x, int)
IsInstanceInt(x) == x.t = "int"

\* a callback that does not store the id (a faulty variant of NextValidId)
NextValidIdIgnored(old, orderId) == old

\* IBapi.nextValidId: the value self.nextorderId holds after the callback
NextValidId(old, orderId) == IntObj(orderId)

GatewayCall(op, arg) == [op |-> op, arg |-> arg]

\* app = IBapi()
Construct ==
    /\ AtStep("construct")
    /\ mainPc' = mainPc + 1
    /\ UNCHANGED <<connected, apiThread, msg_queue, nextorderId, delivered,
                   ops, printed>>
    /\ UNCHANGED <<kernelVars, sessionVars>>

\* app.connect('127.0.0.1', 7496, 123): the socket opens if the gateway is
\* up; a failure is reported through the error callback, not raised
Connect ==
    /\ AtStep("connect")
    /\ connected' \in BOOLEAN
    /\ ops' = Append(ops, GatewayCall("connect", None))
    /\ mainPc' = mainPc + 1
    /\ UNCHANGED <<apiThread, msg_queue, nextorderId, delivered, printed>>
    /\ UNCHANGED <<kernelVars, sessionVars>>

\* app.nextorderId = None
ResetOrderId ==
    /\ AtStep("reset")
    /\ nextorderId' = None
    /\ mainPc' = mainPc + 1
    /\ UNCHANGED <<connected, apiThread, msg_queue, delivered, ops, printed>>
    /\ UNCHANGED <<kernelVars, sessionVars>>

\* api_thread = threading.Thread(target=run_loop, daemon=True); api_thread.start()
StartApiThread ==
    /\ AtStep("start")
    /\ apiThread' = "running"
    /\ mainPc' = mainPc + 1
    /\ UNCHANGED <<connected, msg_queue, nextorderId, delivered, ops, printed>>
    /\ UNCHANGED <<kernelVars, sessionVars>>

\* the wait loop, test true: print('connected'); break
WaitConnected ==
    /\ AtStep("wait")
    /\ IsInstanceInt(nextorderId)
    /\ printed' = printed \cup {"connected"}
    /\ mainPc' = mainPc + 1
    /\ UNCHANGED <<connected, apiThread, msg_queue, nextorderId, delivered, ops>>
    /\ UNCHANGED <<kernelVars, sessionVars>>

\* the wait loop, test false: print('waiting for connection'); time.sleep(1)
WaitSleep ==
    /\ AtStep("wait")
    /\ ~IsInstanceInt(nextorderId)
    /\ printed' = printed \cup {"waiting for connection"}
    /\ UNCHANGED <<mainPc, connected, apiThread, msg_queue, nextorderId,
                   delivered, ops>>
    /\ UNCHANGED <<kernelVars, sessionVars>>

\* app.placeOrder(app.nextorderId, stock_contract("AAPL"), order); time.sleep(3)
PlaceOrder ==
    /\ AtStep("place")
    /\ ops' = Append(ops, GatewayCall("placeOrder", nextorderId))
    /\ mainPc' = mainPc + 1
    /\ UNCHANGED <<connected, apiThread, msg_queue, nextorderId, delivered,
                   printed>>
    /\ UNCHANGED <<kernelVars, sessionVars>>

\* print('cancelling order'); app.cancelOrder(app.nextorderId, ""); time.sleep(3)
CancelOrder ==
    /\ AtStep("cancel")
    /\ printed' = printed \cup {"cancelling order"}
    /\ ops' = Append(ops, GatewayCall("cancelOrder", nextorderId))
    /\ mainPc' = mainPc + 1
    /\ UNCHANGED <<connected, apiThread, msg_queue, nextorderId, delivered>>
    /\ UNCHANGED <<kernelVars, sessionVars>>

\* app.disconnect()
Disconnect ==
    /\ AtStep("disconnect")
    /\ connected' = FALSE
    /\ ops' = Append(ops, GatewayCall("disconnect", None))
    /\ mainPc' = mainPc + 1
    /\ UNCHANGED <<apiThread, msg_queue, nextorderId, delivered, printed>>
    /\ UNCHANGED <<kernelVars, sessionVars>>

\* the gateway sends a next-valid-id message, which the reader puts in the
\* queue of app
GatewaySend ==
    /\ connected
    /\ Len(msg_queue) + Len(delivered) < MaxSends
    /\ \E id \in OrderIds : msg_queue' = Append(msg_queue, id)
    /\ UNCHANGED <<mainPc, connected, apiThread, nextorderId, delivered, ops,
                   printed>>
    /\ UNCHANGED <<kernelVars, sessionVars>>

\* app.run() on the API thread takes a message and calls nextValidId
ApiDeliver ==
    /\ apiThread = "running"
    /\ msg_queue # <<>>
    /\ nextorderId' = NextValidId(nextorderId, Head(msg_queue))
    /\ delivered' = Append(delivered, Head(msg_queue))
    /\ msg_queue' = Tail(msg_queue)
    /\ printed' = printed \cup {"The next valid order id is"}
    /\ UNCHANGED <<mainPc, connected, apiThread, ops>>
    /\ UNCHANGED <<kernelVars, sessionVars>>

\* app.run() returns once the socket is closed and the queue is empty
ApiExit ==
    /\ apiThread = "running"
    /\ ~connected
    /\ msg_queue = <<>>
    /\ apiThread' = "stopped"
    /\ UNCHANGED <<mainPc, connected, msg_queue, nextorderId, delivered, ops,
                   printed>>
    /\ UNCHANGED <<kernelVars, sessionVars>>

MainStep ==
    \/ Construct
    \/ Connect
    \/ ResetOrderId
    \/ StartApiThread
    \/ WaitConnected
    \/ WaitSleep
    \/ PlaceOrder
    \/ CancelOrder
    \/ Disconnect

NextDemo ==
    \/ Construct
    \/ Connect
    \/ ResetOrderId
    \/ StartApiThread
    \/ WaitConnected
    \/ WaitSleep
    \/ PlaceOrder
    \/ CancelOrder
    \/ Disconnect
    \/ GatewaySend
    \/ ApiDeliver
    \/ ApiExit

SpecDemo == Init /\ [][NextDemo]_vars

\* both threads keep being scheduled: a statement of the main thread that
\* can run does run, and so does a callback of the API thread
SpecDemoFair ==
    Init /\ [][NextDemo]_vars /\ WF_vars(MainStep) /\ WF_vars(ApiDeliver)

\* ------------------------------------------------------------- properties
NumAssets == Len(data)

NumRows == Len(data[1])

AllPositive == \A a \in 1..NumAssets : \A t \in 1..NumRows : data[a][t] > 0

ConfidenceValid == Less(Zero, confidence) /\ Less(confidence, One)

\* r = p1/p0 - 1, cross-multiplied
IsReturnOf(r, p1, p0) == r.k = "fin" /\ r.n * p0 = (p1 - p0) * r.d

\* C1 as stated: for positive prices and L >= 2 rows, buildReturns yields
\* exactly L-1 entries per asset, none kept for the first observation.
C1_LengthOneLess ==
    ("returns" \in defined /\ NumRows >= 2 /\ AllPositive)
        => \A a \in 1..NumAssets : Len(returns[a]) = NumRows - 1

\* C1 amended: for positive prices and L >= 2 rows, the return sequence of
\* every asset has L entries: the first is kept and is undefined (NaN), the
\* other L-1 are defined.
C1_FirstRowKeptAsNaN ==
    ("returns" \in defined /\ NumRows >= 2 /\ AllPositive)
        => \A a \in 1..NumAssets :
              /\ Len(returns[a]) = NumRows
              /\ IsNaN(returns[a][1])
              /\ \A t \in 2..NumRows : IsFinite(returns[a][t])

C1_Witness ==
    /\ "returns" \in defined
    /\ NumAssets = 2
    /\ NumRows = 3
    /\ AllPositive

\* C2 as stated: the return at position t-1 equals price[t]/price[t-1] - 1
\* for t = 1..L-1 (positions counted from 0), and a constant price sequence
\* yields returns that are all zero.
C2_ReturnAtPreviousPosition ==
    ("returns" \in defined /\ NumRows >= 2 /\ AllPositive)
        => \A a \in 1..NumAssets :
              /\ \A t \in 1..(NumRows - 1) :
                    IsReturnOf(returns[a][t], data[a][t + 1], data[a][t])
              /\ (\A t \in 1..NumRows : data[a][t] = data[a][1])
                    => \A t \in 1..Len(returns[a]) : returns[a][t] = Zero

\* C2 amended: the return at position t, the row of price[t], equals
\* price[t]/price[t-1] - 1 for t = 1..L-1 (positions counted from 0), and a
\* constant price sequence yields zero at every position but position 0.
C2_ReturnAtSamePosition ==
    ("returns" \in defined /\ NumRows >= 2 /\ AllPositive)
        => \A a \in 1..NumAssets :
              /\ \A t \in 2..NumRows :
                    IsReturnOf(returns[a][t], data[a][t], data[a][t - 1])
              /\ (\A t \in 1..NumRows : data[a][t] = data[a][1])
                    => \A t \in 2..NumRows : returns[a][t] = Zero

C2_Witness ==
    /\ "returns" \in defined
    /\ NumRows = 3
    /\ AllPositive
    /\ data[1][1] # data[1][2]
    /\ returns[1][3] = Fin(-1, 2)

\* the prices are valid and the portfolio statistics in value space are a
\* finite mean and a positive finite standard deviation
StatsValid ==
    /\ "investment_stdev" \in defined
    /\ AllPositive
    /\ IsFinite(mean_investment)
    /\ investment_stdev.k = "fin"
    /\ RootIsPositive(investment_stdev)

\* C3 as stated: with confidence outside the open interval (0,1), at 0 or at
\* 1, estimateVaR (here on valid statistics) ends in an invalid-parameter
\* error: no quantile and no VaR, infinite, NaN or other, is produced.
C3_InvalidConfidenceRaises ==
    (StatsValid /\ ~ConfidenceValid)
        => /\ "percent_point" \notin defined
           /\ "value_at_risk" \notin defined

\* C4 as stated: with a value-space standard deviation of exactly 0 and a
\* confidence in (0,1), the VaR is exactly initial_investment -
\* mean_investment, never NaN.
C4_ZeroStdevGivesMeanLoss ==
    ("value_at_risk" \in defined /\ AllPositive /\ ConfidenceValid
        /\ RootIsZero(investment_stdev))
        => value_at_risk = EstOf(Sub(initial_investment, mean_investment))

\* C5: when the weights vector and the price table differ in the number of
\* assets, the run ends in the shape-mismatch error at the latest at the
\* portfolio mean, and neither port_mean nor port_stdev is ever bound.
C5_MismatchRaises ==
    ("data" \in defined /\ Len(weights) # NumAssets)
        => /\ "port_mean" \notin defined
           /\ "port_stdev" \notin defined
           /\ pc \in {"returns", "cov_matrix", "mean_returns", "port_mean", "error"}
           /\ pc = "error" => error = "shape mismatch"

C5_Witness ==
    /\ pc = "error"
    /\ error = "shape mismatch"
    /\ Len(weights) # NumAssets

\* C6 as stated: when a price is zero or negative (in sequences long enough
\* to have returns), the run ends in an invalid-price error and no return
\* sequence is produced.
C6_InvalidPriceRaises ==
    ("data" \in defined /\ NumRows >= 2 /\ ~AllPositive)
        => /\ "returns" \notin defined
           /\ pc \in {"returns", "error"}

\* C7 as stated: when the price sequences have fewer than 2 observations
\* (of valid prices), the run ends in an insufficient-data error and does
\* not go on to the covariance, the means or the VaR.
C7_ShortSeriesRaises ==
    ("data" \in defined /\ NumRows < 2 /\ AllPositive)
        => /\ "cov_matrix" \notin defined
           /\ "mean_returns" \notin defined
           /\ "value_at_risk" \notin defined
           /\ pc \in {"returns", "cov_matrix", "error"}

\* C8 as stated: when the horizon asked for is below 1, the scaling step
\* (here of a finite one-step VaR) ends in an invalid-parameter error and
\* no curve is produced.
C8_InvalidHorizonRaises ==
    (pc = "done" /\ value_at_risk.k = "fin" /\ horizonDays < 1)
        => "value_at_risks" \notin defined

InputsValid ==
    /\ NumRows >= 2
    /\ AllPositive
    /\ Len(weights) = NumAssets
    /\ ConfidenceValid

\* C9 as stated: a run that ends in an error has produced neither a VaR nor
\* a curve, and a run that produces a VaR or a curve passed every
\* validation (enough data, valid prices, matching dimensions, valid
\* confidence and, for the curve, a valid horizon).
C9_ErrorsBeforeResults ==
    /\ pc = "error" => /\ "value_at_risk" \notin defined
                       /\ "value_at_risks" \notin defined
    /\ "value_at_risk" \in defined => InputsValid
    /\ "value_at_risks" \in defined => (InputsValid /\ horizonDays >= 1)

\* C10 as stated: for a horizon n >= 1 the curve (here of a finite one-step
\* VaR v) has exactly n values and element k (from 0) is v * sqrt(k+1).
C10_LengthFollowsHorizon ==
    (pc = "done" /\ value_at_risk.k = "fin" /\ horizonDays >= 1)
        => /\ Len(value_at_risks) = horizonDays
           /\ \A i \in 1..horizonDays :
                 value_at_risks[i] = TimesSqrt(value_at_risk, i)

\* C10 amended: whatever horizon is asked for, the curve has exactly 30
\* values and element k (from 0) is v * sqrt(k+1) for k in [0, 30): for a
\* finite v the product with radicand k+1, for a NaN or infinite v that NaN
\* or infinity itself.
C10_ThirtyValues ==
    "value_at_risks" \in defined
        => /\ Len(value_at_risks) = 30
           /\ \A i \in 1..30 :
                 /\ value_at_risks[i].v = value_at_risk
                 /\ value_at_risks[i].rad =
                        (IF value_at_risk.k = "fin" THEN i ELSE 1)

C10_Witness ==
    /\ pc = "done"
    /\ horizonDays = 2
    /\ value_at_risk.k = "fin"
    /\ value_at_risks[2].rad = 2

\* Bounds of z(q)^2 for the quantiles the runs use: z(0.05) = -z(0.95) =
\* -1.6448536..., so 2.705 < z^2 < 2.706; no bound is known for another q.
ZSquaredKnown(q) == q \in {Fin(1, 20), Fin(19, 20)}

ZSquaredLow(q) == Fin(2705, 1000)

ZSquaredHigh(q) == Fin(2706, 1000)

\* The sign of a finite or infinite estimate a + zc * z(q) * s: 1, 0 or -1,
\* and 2 where the bounds of z(q)^2 do not decide it. With s = c * sqrt(r)
\* and t the sign of zc * z(q), the sign is t when a = 0 or a has sign t,
\* and otherwise the sign of a when (a/c)^2 / r > z^2, t when it is < z^2.
EstSign(v) ==
    IF v.k = "inf" THEN v.n
    ELSE IF v.zc = 0 THEN Sgn(v.a.n)
    ELSE LET t == v.zc * ZSign(v.q)
             ratio == Div(Mul(Div(v.a, v.s.c), Div(v.a, v.s.c)), v.s.r)
         IN  IF v.a.n = 0 \/ Sgn(v.a.n) = t THEN t
             ELSE IF ~ZSquaredKnown(v.q) THEN 2
             ELSE IF Less(ZSquaredHigh(v.q), ratio) THEN Sgn(v.a.n)
             ELSE IF Less(ratio, ZSquaredLow(v.q)) THEN t
             ELSE 2

\* e1 < e2 for two curve elements v * sqrt(rad) over the same finite v
CurveLess(e1, e2) ==
    /\ e1.v = e2.v
    /\ e1.v.k = "fin"
    /\ \/ EstSign(e1.v) = 1 /\ e1.rad < e2.rad
       \/ EstSign(e1.v) = -1 /\ e1.rad > e2.rad

\* the one-step VaR is a finite number above zero
VaRFinitePositive == value_at_risk.k = "fin" /\ EstSign(value_at_risk) = 1

\* C11 as stated: for a one-step VaR v > 0 (here of valid prices) and a
\* horizon n >= 1, the curve is strictly increasing, its first element is v
\* itself and its last element is v * sqrt(n).
C11_LastIsHorizonRoot ==
    (pc = "done" /\ AllPositive /\ VaRFinitePositive /\ horizonDays >= 1)
        => /\ \A i \in 1..(Len(value_at_risks) - 1) :
                 CurveLess(value_at_risks[i], value_at_risks[i + 1])
           /\ value_at_risks[1] = [v |-> value_at_risk, rad |-> 1]
           /\ value_at_risks[Len(value_at_risks)] =
                  [v |-> value_at_risk, rad |-> horizonDays]

\* C11 amended: for a finite one-step VaR v > 0 the curve is strictly
\* increasing, its first element is v itself and its last element is
\* v * sqrt(30), whatever horizon n is asked for; for v = +infinity every
\* element is +infinity (non-decreasing, first and last equal to v).
C11_LastIsThirtiethRoot ==
    /\ ("value_at_risks" \in defined /\ VaRFinitePositive)
          => /\ \A i \in 1..(Len(value_at_risks) - 1) :
                   CurveLess(value_at_risks[i], value_at_risks[i + 1])
             /\ value_at_risks[1] = [v |-> value_at_risk, rad |-> 1]
             /\ value_at_risks[Len(value_at_risks)] =
                    [v |-> value_at_risk, rad |-> 30]
    /\ ("value_at_risks" \in defined /\ value_at_risk.k = "inf"
          /\ value_at_risk.n = 1)
          => \A i \in 1..Len(value_at_risks) :
                value_at_risks[i] = [v |-> value_at_risk, rad |-> 1]

C11_Witness ==
    /\ pc = "done"
    /\ horizonDays = 2
    /\ VaRFinitePositive
    /\ value_at_risk.zc # 0
    /\ value_at_risk.a.n < 0
    /\ value_at_risks[30].rad = 30

\* C12 as stated: the portfolio standard deviation is always a defined
\* non-negative number; where the quadratic form weights . cov . weights
\* evaluates to a (finite) negative value it is clamped to zero before the
\* square root, so the standard deviation is 0, not NaN.
C12_NegativeVarianceClamped ==
    ("port_stdev" \in defined /\ IsFinite(QuadForm(weights, cov_matrix)))
        => /\ port_stdev.k = "fin"
           /\ port_stdev.c.n >= 0
           /\ Less(QuadForm(weights, cov_matrix), Zero) => RootIsZero(port_stdev)

\* the sum of the returns p[t]/p[t-1] - 1 of the rows 2..t of a price
\* sequence p, and the sum of their squares
RECURSIVE ReturnSum(_, _)
ReturnSum(p, t) ==
    IF t < 2 THEN Zero
    ELSE Add(ReturnSum(p, t - 1), Fin(p[t] - p[t - 1], p[t - 1]))

RECURSIVE ReturnSquareSum(_, _)
ReturnSquareSum(p, t) ==
    IF t < 2 THEN Zero
    ELSE Add(ReturnSquareSum(p, t - 1),
             Fin((p[t] - p[t - 1]) * (p[t] - p[t - 1]), p[t - 1] * p[t - 1]))

\* a single asset with weight 1 and at least two returns of valid prices
SingleAsset ==
    /\ "port_stdev" \in defined
    /\ NumAssets = 1
    /\ weights = <<One>>
    /\ NumRows >= 3
    /\ AllPositive

\* C13: for a single asset with weight 1 and K >= 2 returns r, the
\* portfolio mean is sum(r) / K and the portfolio standard deviation is the
\* sample one, the root of (sum(r^2) - K * mean^2) / (K - 1).
C13_SingleAssetStatistics ==
    SingleAsset
        => LET K == Fin(NumRows - 1, 1)
               m == Div(ReturnSum(data[1], NumRows), K)
               v == Div(Sub(ReturnSquareSum(data[1], NumRows), Mul(K, Mul(m, m))),
                        Sub(K, One))
           IN  /\ port_mean = m
               /\ port_stdev.k = "fin"
               /\ IF v = Zero THEN RootIsZero(port_stdev)
                  ELSE port_stdev.c = One /\ port_stdev.r = v

C13_Witness ==
    /\ SingleAsset
    /\ data[1] = <<1, 2, 1>>
    /\ port_mean = Fin(1, 4)
    /\ port_stdev.r = Fin(9, 8)

\* the permutations of 1..n
Perms(n) == {f \in [1..n -> 1..n] : \A i, j \in 1..n : f[i] = f[j] => i = j}

\* C14: aggregate on the assets in any other order (price sequences and
\* weights permuted alike) gives the same portfolio mean and standard
\* deviation, and the covariance matrix with rows and columns relabelled by
\* the permutation; the covariance matrix is symmetric. Stated of the
\* state in which aggregate has just returned (port_mean, port_stdev and
\* cov_matrix are not assigned again).
C14_PermutationInvariant ==
    pc = "mean_investment"
        => \A f \in Perms(NumAssets) :
              LET permData == [a \in 1..NumAssets |-> data[f[a]]]
                  permWeights == [a \in 1..NumAssets |-> weights[f[a]]]
                  permReturns == PctChangeTable(permData)
                  permCov == CovTable(permReturns)
              IN  /\ Dot(MeanTable(permReturns), permWeights) = port_mean
                  /\ SqrtOf(QuadForm(permWeights, permCov)) = port_stdev
                  /\ \A i, j \in 1..NumAssets :
                        /\ permCov[i][j] = cov_matrix[f[i]][f[j]]
                        /\ cov_matrix[i][j] = cov_matrix[j][i]

C14_Witness ==
    /\ pc = "mean_investment"
    /\ NumAssets = 2
    /\ data[1] = <<1, 2, 1>>
    /\ data[2] = <<2, 2, 1>>
    /\ weights = <<Fin(3, 2), Fin(-1, 2)>>
    /\ port_stdev.k = "fin"
    /\ port_stdev.c.n > 0

\* the current run executes the cell at c
RunsCell(c) == pc = c /\ current' = current /\ pc' # pc

\* C15 as stated: when two runs are interleaved cell by cell, each run gets
\* the VaR and the curve it gets when executed alone on its own inputs, and
\* no run ends in an error it does not end in alone.
C15_RunsDoNotInterfere ==
    [][/\ RunsCell("value_at_risk")
            => value_at_risk' = AloneVaR(inputs[current])
       /\ RunsCell("value_at_risks")
            => value_at_risks' = AloneCurve(inputs[current])
       /\ (current' = current /\ pc' = "error")
            => AloneRaises(inputs[current])]_vars

\* the last id handed to nextValidId
LastDelivered == delivered[Len(delivered)]

\* C16: placeOrder is never called before nextValidId was delivered: when
\* the main thread is about to call placeOrder, app.nextorderId is an int,
\* the id last delivered by the gateway, and every placeOrder call made
\* carries a delivered id, never None.
C16_PlaceAfterNextValidId ==
    /\ AtStep("place")
          => /\ IsInstanceInt(nextorderId)
             /\ delivered # <<>>
             /\ nextorderId.v = LastDelivered
    /\ \A i \in 1..Len(ops) :
          ops[i].op = "placeOrder"
              => /\ IsInstanceInt(ops[i].arg)
                 /\ \E j \in 1..Len(delivered) : delivered[j] = ops[i].arg.v

C16_Witness ==
    /\ Len(ops) >= 2
    /\ ops[2] = GatewayCall("placeOrder", IntObj(2))
    /\ "waiting for connection" \in printed

\* C17 as stated: cancelOrder is called with the order id that was passed
\* to placeOrder, also when nextValidId callbacks are delivered between the
\* two calls.
C17_CancelSameId ==
    \A i, j \in 1..Len(ops) :
        (ops[i].op = "placeOrder" /\ ops[j].op = "cancelOrder")
            => ops[j].arg = ops[i].arg

\* C18: the gateway calls of the main thread are, in order, connect,
\* placeOrder, cancelOrder, disconnect, each at most once, and each exactly
\* once when the main thread has run to its end.
C18_FixedOrder ==
    LET order == <<"connect", "placeOrder", "cancelOrder", "disconnect">>
    IN  /\ Len(ops) <= Len(order)
        /\ \A i \in 1..Len(ops) : ops[i].op = order[i]
        /\ mainPc > Len(MainOrder) => Len(ops) = Len(order)

C18_Witness ==
    /\ mainPc > Len(MainOrder)
    /\ Len(ops) = 4
    /\ ops[4].op = "disconnect"
    /\ Len(delivered) = 2

\* C19: the wait loop is left ('connected' is printed) only if a
\* nextValidId callback was delivered; the reset to None comes before the
\* API thread starts, so a delivered id is never erased; and, with both
\* threads scheduled fairly, once the gateway has sent an id the main
\* thread eventually leaves the loop.
C19_LoopExitsIffIdDelivered ==
    /\ []("connected" \in printed => delivered # <<>>)
    /\ [](apiThread # "unstarted" => nextorderId # NoAttribute)
    /\ [](delivered # <<>> => nextorderId = IntObj(LastDelivered))
    /\ (msg_queue # <<>>) ~> ("connected" \in printed)

C19_Witness ==
    /\ "waiting for connection" \in printed
    /\ "connected" \in printed
    /\ delivered # <<>>
    /\ nextorderId = IntObj(LastDelivered)

============================================================================
